---- MODULE Spec2Model ----
(***************************************************************************)
(* The todo page of src/src/app/page.tsx: an AppPage component instance    *)
(* followed step by step, and a peer instance of the same page that writes *)
(* to the shared Firestore collection from an up-to-date view.             *)
(*                                                                         *)
(* Program state is React state (todos, inputContent, inputCategory,       *)
(* userId, syncStatus), the effect's snapshot listener, and the promises   *)
(* the handlers await.  The collaborators are modelled by their contract:  *)
(* the Firestore collection (setDoc / setDoc merge / deleteDoc / onSnapshot*)
(* with the client's pending writes overlaid on the listener's view) and   *)
(* the identity provider (onAuthStateChanged / signInAnonymously).         *)
(***************************************************************************)
EXTENDS Integers, Sequences, FiniteSets, TLC

(***************************************************************************)
(* Bounds of the model.                                                    *)
(***************************************************************************)
MaxLen == 2         \* longest text typed into an input
MaxDocs == 2        \* document ids doc() can generate
MaxPending == 1     \* writes one client may have in flight
MaxSignIns == 2     \* anonymous users the provider hands out
MaxWrites == 2      \* writes the handlers issue in one run
MaxTyped == 1       \* texts typed into an input in one run
MaxOutside == 1     \* events from outside the page in one run: a write of the
                    \* peer, a rejection, a lost user, an unmount
MaxItems == 3       \* longest list handed to the comparator on its own
MaxSeconds == 2     \* latest second of a resolved creation time
MaxNanos == 1       \* latest nanosecond of a resolved creation time

Sessions == {"s1"}
Ids == 1..MaxDocs
NoUser == 0         \* userId === null

Chars == {" ", "a"}
Categories == {"business", "personal"}

(***************************************************************************)
(* Strings are sequences of characters; String.prototype.trim strips the   *)
(* white space at both ends.                                               *)
(***************************************************************************)
Strings == UNION {[1..n -> Chars] : n \in 0..MaxLen}

RECURSIVE TrimStart(_)
TrimStart(str) ==
    IF str # <<>> /\ Head(str) = " " THEN TrimStart(Tail(str)) ELSE str

RECURSIVE TrimEnd(_)
TrimEnd(str) ==
    IF str # <<>> /\ str[Len(str)] = " "
    THEN TrimEnd(SubSeq(str, 1, Len(str) - 1))
    ELSE str

Trim(str) == TrimEnd(TrimStart(str))

(***************************************************************************)
(* Documents are JavaScript objects: functions whose domain is the set of  *)
(* fields present.  createdAt is null, the serverTimestamp() sentinel or a *)
(* resolved Timestamp.                                                     *)
(***************************************************************************)
NullTs == [kind |-> "null"]
serverTimestamp == [kind |-> "sentinel"]
Timestamp(sec, nano) == [kind |-> "timestamp", seconds |-> sec, nanoseconds |-> nano]

NoDoc == [exists |-> FALSE]

\* setDoc(ref, data, { merge: true }): only the fields of data change; a
\* document that does not exist is created with just those fields.
MergeFields(base, data) ==
    [f \in (DOMAIN base) \cup (DOMAIN data) |->
        IF f \in DOMAIN data THEN data[f] ELSE base[f]]

SetMergeOverwriting(old, data) == data

SetMerge(old, data) ==
    IF old = NoDoc THEN data ELSE MergeFields(old, data)

\* The value a sentinel takes: the commit time on the server, null in the
\* client's own view while the write is pending.
Resolve(data, ts) ==
    [f \in DOMAIN data |->
        IF f = "createdAt" /\ data[f] = serverTimestamp THEN ts ELSE data[f]]

\* One write applied to a collection (a function from Ids to documents).
ApplyWrite(col, w, ts) ==
    CASE w.op = "set"    -> [col EXCEPT ![w.id] = Resolve(w.data, ts)]
      [] w.op = "merge"  -> [col EXCEPT ![w.id] = SetMerge(col[w.id], Resolve(w.data, ts))]
      [] w.op = "delete" -> [col EXCEPT ![w.id] = NoDoc]

RECURSIVE ApplyAll(_, _)
ApplyAll(col, ws) ==
    IF ws = <<>> THEN col ELSE ApplyAll(ApplyWrite(col, Head(ws), NullTs), Tail(ws))

VARIABLES
    server,         \* the remote collection: Ids -> document or NoDoc
    clock,          \* the server's time
    usedIds,        \* ids doc() has generated
    removed,        \* ids whose deleteDoc the server has applied
    signIns,        \* anonymous users created so far
    mounted,        \* the component instance is mounted
    authUser,       \* the provider's current user of the session
    authEvt,        \* an auth state notification is due
    signingIn,      \* a signInAnonymously promise is outstanding
    userId,         \* useState userId
    syncStatus,     \* useState syncStatus
    subs,           \* live snapshot listeners, named by the userId they were opened under
    fresh,          \* the listener has not delivered its first snapshot
    lastSnap,       \* the documents of the last snapshot delivered
    todos,          \* useState todos
    inputContent,   \* useState inputContent
    inputCategory,  \* useState inputCategory
    pending,        \* writes awaited by the session's handlers, oldest first
    editing,        \* the todo field that has focus and what was typed into it
    spent,          \* what the run has used of MaxWrites, MaxTyped and MaxOutside
    rendered        \* the list last rendered from todosAsc, when the comparator is
                    \* studied on its own

remoteVars == <<server, clock, usedIds, removed, signIns>>
authVars == <<authUser, authEvt, signingIn, userId>>
viewVars == <<subs, fresh, lastSnap, todos>>
formVars == <<inputContent, inputCategory>>
vars == <<server, clock, usedIds, removed, signIns, mounted, authUser, authEvt, signingIn,
          userId, syncStatus, subs, fresh, lastSnap, todos, inputContent,
          inputCategory, pending, editing, spent, rendered>>

NoEdit == [id |-> 0]

\* The ids deleted once the server has applied the write w.
RemovedAfter(w) == IF w.op = "delete" THEN removed \cup {w.id} ELSE removed

\* The run's budgets.
MayWrite == spent.writes < MaxWrites
MayType == spent.typed < MaxTyped
MayOutside == spent.outside < MaxOutside
Wrote == [spent EXCEPT !.writes = @ + 1]
Typed == [spent EXCEPT !.typed = @ + 1]
Outside == [spent EXCEPT !.outside = @ + 1]

NoSnap == <<>>

(***************************************************************************)
(* The snapshot listener's view: the server's documents with the client's  *)
(* own pending writes applied, in document id order.                       *)
(***************************************************************************)
LocalView(s) == ApplyAll(server, pending[s])

RECURSIVE DocsFrom(_, _)
DocsFrom(col, i) ==
    IF i > MaxDocs THEN <<>>
    ELSE IF col[i] = NoDoc THEN DocsFrom(col, i + 1)
    ELSE <<[id |-> i, data |-> col[i]]>> \o DocsFrom(col, i + 1)

SnapshotDocs(s) == DocsFrom(LocalView(s), 1)

\* { id: doc.id, ...doc.data() }
TodoOf(d) == MergeFields([id |-> d.id], d.data)

TodosDataReversed(docs) == [i \in 1..Len(docs) |-> TodoOf(docs[Len(docs) + 1 - i])]

TodosData(docs) == [i \in 1..Len(docs) |-> TodoOf(docs[i])]

(***************************************************************************)
(* The values of syncStatus.                                               *)
(***************************************************************************)
StInitializing == "Initializing..."
StAuthenticated == "Authenticated. Ready for sync."
StAuthError == "Auth Error. Check console."
StSynced == "Synced"
StSyncError == "Sync Error. Check console."
StAddFailed == "Failed to add todo. Check console."
StDeleteFailed == "Failed to delete todo. Check console."
StToggleFailed == "Failed to update todo status. Check console."
StContentFailed == "Failed to update todo content. Check console."

\* The message each handler's catch block sets.
FailureStatus(kind) ==
    CASE kind = "add"     -> StAddFailed
      [] kind = "remove"  -> StDeleteFailed
      [] kind = "toggle"  -> StToggleFailed
      [] kind = "content" -> StContentFailed

\* The collection outlives the page: when the page loads it is empty or holds
\* a todo the peer added before.
SeedDoc ==
    [content |-> <<"a">>, category |-> "business", done |-> FALSE,
     createdAt |-> Timestamp(1, 0), createdBy |-> MaxSignIns + 1]

SeedIds == {{}, {1}}

Init ==
    /\ \E seed \in SeedIds :
          /\ server = [i \in Ids |-> IF i \in seed THEN SeedDoc ELSE NoDoc]
          /\ usedIds = seed
    /\ removed = {}
    /\ clock = Timestamp(1, 1)
    /\ signIns = 0
    /\ mounted = [s \in Sessions |-> TRUE]
    /\ authUser = [s \in Sessions |-> NoUser]
    /\ authEvt = [s \in Sessions |-> TRUE]
    /\ signingIn = [s \in Sessions |-> FALSE]
    /\ userId = [s \in Sessions |-> NoUser]
    /\ syncStatus = [s \in Sessions |-> StInitializing]
    /\ subs = [s \in Sessions |-> {}]
    /\ fresh = [s \in Sessions |-> FALSE]
    /\ lastSnap = [s \in Sessions |-> NoSnap]
    /\ todos = [s \in Sessions |-> <<>>]
    /\ inputContent = [s \in Sessions |-> <<>>]
    /\ inputCategory = [s \in Sessions |-> "personal"]
    /\ pending = [s \in Sessions |-> <<>>]
    /\ editing = [s \in Sessions |-> NoEdit]
    /\ spent = [writes |-> 0, typed |-> 0, outside |-> 0]
    /\ rendered = [s \in Sessions |-> <<>>]

(***************************************************************************)
(* Authentication and the listener effect.                                 *)
(***************************************************************************)

\* The listener effect re-running for a new userId: React runs the previous
\* run's cleanup (unsubscribeSnapshot) and then subscribes again.
ListenerEffectLeaky(s, uid) == subs[s] \cup {uid}

ListenerEffect(s, uid) == {uid}

\* The cleanups React runs when the component unmounts.
UnmountCleanupLeaky(s) == subs[s]

UnmountCleanup(s) == {}

\* The callback given to onAuthStateChanged.
OnAuthStateChanged(s) ==
    /\ mounted[s]
    /\ authEvt[s]
    /\ authEvt' = [authEvt EXCEPT ![s] = FALSE]
    /\ IF authUser[s] # NoUser
       THEN /\ userId' = [userId EXCEPT ![s] = authUser[s]]
            /\ syncStatus' = [syncStatus EXCEPT ![s] = StAuthenticated]
            /\ IF userId[s] # authUser[s]
               THEN /\ subs' = [subs EXCEPT ![s] = ListenerEffect(s, authUser[s])]
                    /\ fresh' = [fresh EXCEPT ![s] = TRUE]
               ELSE UNCHANGED <<subs, fresh>>
            /\ UNCHANGED signingIn
       ELSE /\ signingIn' = [signingIn EXCEPT ![s] = TRUE]
            /\ UNCHANGED <<userId, syncStatus, subs, fresh>>
    /\ UNCHANGED <<remoteVars, mounted, authUser, lastSnap, todos, formVars,
                   pending, editing, spent, rendered>>

\* signInAnonymously resolves: the provider has a new anonymous user.
SignInOk(s) ==
    /\ signingIn[s]
    /\ signIns < MaxSignIns
    /\ signIns' = signIns + 1
    /\ authUser' = [authUser EXCEPT ![s] = signIns + 1]
    /\ authEvt' = [authEvt EXCEPT ![s] = TRUE]
    /\ signingIn' = [signingIn EXCEPT ![s] = FALSE]
    /\ UNCHANGED <<server, clock, usedIds, removed, mounted, userId, syncStatus, viewVars,
                   formVars, pending, editing, spent, rendered>>

\* signInAnonymously rejects: the catch block of signIn.
SignInFail(s) ==
    /\ MayOutside
    /\ signingIn[s]
    /\ signingIn' = [signingIn EXCEPT ![s] = FALSE]
    /\ syncStatus' = [syncStatus EXCEPT ![s] = IF mounted[s] THEN StAuthError ELSE @]
    /\ UNCHANGED <<remoteVars, mounted, authUser, authEvt, userId, viewVars,
                   formVars, pending, editing, rendered>>
    /\ spent' = Outside

\* The provider drops the session's user (the account is deleted or its
\* token revoked); the auth listener is told.
AuthLost(s) ==
    /\ MayOutside
    /\ authUser[s] # NoUser
    /\ signIns < MaxSignIns
    /\ authUser' = [authUser EXCEPT ![s] = NoUser]
    /\ authEvt' = [authEvt EXCEPT ![s] = TRUE]
    /\ UNCHANGED <<remoteVars, mounted, signingIn, userId, syncStatus, viewVars,
                   formVars, pending, editing, rendered>>
    /\ spent' = Outside

\* The component unmounts: both effects' cleanups run and its state is gone.
Unmount(s) ==
    /\ MayOutside
    /\ mounted[s]
    /\ mounted' = [mounted EXCEPT ![s] = FALSE]
    /\ subs' = [subs EXCEPT ![s] = UnmountCleanup(s)]
    /\ UNCHANGED <<remoteVars, authVars, syncStatus, fresh, lastSnap, todos,
                   formVars, pending, editing, rendered>>
    /\ spent' = Outside

(***************************************************************************)
(* The snapshot listener.                                                  *)
(***************************************************************************)
HasId(list, id) == \E i \in 1..Len(list) : list[i].id = id

\* setTodos(todosData): the snapshot replaces the list.
SetTodosAppending(s, docs) == todos[s] \o TodosData(docs)

SetTodos(s, docs) == TodosData(docs)

\* The success callback given to onSnapshot.
OnSnapshot(s) ==
    /\ subs[s] # {}
    /\ fresh[s] \/ SnapshotDocs(s) # lastSnap[s]
    /\ todos' = [todos EXCEPT ![s] = SetTodos(s, SnapshotDocs(s))]
    /\ lastSnap' = [lastSnap EXCEPT ![s] = SnapshotDocs(s)]
    /\ fresh' = [fresh EXCEPT ![s] = FALSE]
    /\ syncStatus' = [syncStatus EXCEPT ![s] = StSynced]
    /\ editing' = [editing EXCEPT ![s] = IF HasId(todos'[s], @.id) THEN @ ELSE NoEdit]
    /\ UNCHANGED <<remoteVars, mounted, authVars, subs, formVars, pending, spent, rendered>>

\* The error callback given to onSnapshot; Firestore ends a listener that failed.
OnSnapshotError(s) ==
    /\ MayOutside
    /\ subs[s] # {}
    /\ subs' = [subs EXCEPT ![s] = {}]
    /\ syncStatus' = [syncStatus EXCEPT ![s] = StSyncError]
    /\ UNCHANGED <<remoteVars, mounted, authVars, fresh, lastSnap, todos, formVars,
                   pending, editing, rendered>>
    /\ spent' = Outside

(***************************************************************************)
(* The create form.                                                        *)
(***************************************************************************)

\* onChange of the content input: setInputContent(e.target.value).
TypeContent(s, str) ==
    /\ MayType
    /\ mounted[s]
    /\ editing[s] = NoEdit
    /\ str # inputContent[s]
    /\ inputContent' = [inputContent EXCEPT ![s] = str]
    /\ UNCHANGED <<remoteVars, mounted, authVars, syncStatus, viewVars, inputCategory,
                   pending, editing, rendered>>
    /\ spent' = Typed

\* onChange of a category radio button.
PickCategory(s, c) ==
    /\ mounted[s]
    /\ editing[s] = NoEdit
    /\ c # inputCategory[s]
    /\ inputCategory' = [inputCategory EXCEPT ![s] = c]
    /\ UNCHANGED <<remoteVars, mounted, authVars, syncStatus, viewVars, inputContent,
                   pending, editing, spent, rendered>>

\* The validation that opens addTodo: it returns when the trimmed content is empty.
AddPassesUntrimmed(s) == inputContent[s] # <<>>

AddPasses(s) == Trim(inputContent[s]) # <<>>

\* The document addTodo hands to setDoc.
NewTodoDataPersonal(content, category, uid) ==
    [content |-> Trim(content),
     category |-> "personal",
     done |-> FALSE,
     createdAt |-> serverTimestamp,
     createdBy |-> uid]

NewTodoData(content, category, uid) ==
    [content |-> Trim(content),
     category |-> category,
     done |-> FALSE,
     createdAt |-> serverTimestamp,
     createdBy |-> uid]

\* addTodo up to its await: doc(todosColRef) generates an id, setDoc is called.
AddTodo(s) ==
    /\ MayWrite
    /\ mounted[s]
    /\ editing[s] = NoEdit
    /\ AddPasses(s)
    /\ Len(pending[s]) < MaxPending
    /\ \E id \in Ids \ usedIds :
          /\ usedIds' = usedIds \cup {id}
          /\ pending' = [pending EXCEPT ![s] =
                Append(@, [kind |-> "add", op |-> "set", id |-> id,
                           data |-> NewTodoData(inputContent[s], inputCategory[s],
                                               userId[s])])]
    /\ UNCHANGED <<server, clock, removed, signIns, mounted, authVars, syncStatus, viewVars,
                   formVars, editing, rendered>>
    /\ spent' = Wrote

(***************************************************************************)
(* The handlers of a rendered todo.                                        *)
(***************************************************************************)

\* The list removeTodo leaves: it calls no setTodos.
RECURSIVE Without(_, _)
Without(list, id) ==
    IF list = <<>> THEN <<>>
    ELSE IF Head(list).id = id THEN Without(Tail(list), id)
    ELSE <<Head(list)>> \o Without(Tail(list), id)

TodosAfterRemoveOptimistic(s, id) == Without(todos[s], id)

TodosAfterRemove(s, id) == todos[s]

\* removeTodo up to its await.
RemoveTodo(s, i) ==
    /\ MayWrite
    /\ mounted[s]
    /\ editing[s] = NoEdit
    /\ i \in 1..Len(todos[s])
    /\ Len(pending[s]) < MaxPending
    /\ pending' = [pending EXCEPT ![s] =
          Append(@, [kind |-> "remove", op |-> "delete", id |-> todos[s][i].id,
                     data |-> <<>>])]
    /\ todos' = [todos EXCEPT ![s] = TodosAfterRemove(s, todos[s][i].id)]
    /\ UNCHANGED <<remoteVars, mounted, authVars, syncStatus, subs, fresh, lastSnap,
                   formVars, editing, rendered>>
    /\ spent' = Wrote

\* !todo.done, for a todo that may have no done field.
NotDone(todo) == ~("done" \in DOMAIN todo /\ todo.done)

\* The fields toggleDone merges into the document.
ToggleData(todo) == [done |-> NotDone(todo)]

\* toggleDone up to its await.
ToggleDone(s, i) ==
    /\ MayWrite
    /\ mounted[s]
    /\ editing[s] = NoEdit
    /\ i \in 1..Len(todos[s])
    /\ Len(pending[s]) < MaxPending
    /\ pending' = [pending EXCEPT ![s] =
          Append(@, [kind |-> "toggle", op |-> "merge", id |-> todos[s][i].id,
                     data |-> ToggleData(todos[s][i])])]
    /\ UNCHANGED <<remoteVars, mounted, authVars, syncStatus, viewVars, formVars,
                   editing, rendered>>
    /\ spent' = Wrote

\* The todo with the given id in a list (the list holds one).
TodoWithId(list, id) == list[CHOOSE i \in 1..Len(list) : list[i].id = id]

\* The value the content input of a todo shows: value={todo.content}.
FieldValue(todo) == IF "content" \in DOMAIN todo THEN todo.content ELSE <<>>

\* The content input of a todo takes the focus.
Focus(s, i) ==
    /\ mounted[s]
    /\ editing[s] = NoEdit
    /\ i \in 1..Len(todos[s])
    /\ editing' = [editing EXCEPT ![s] = [id |-> todos[s][i].id]]
    /\ UNCHANGED <<remoteVars, mounted, authVars, syncStatus, viewVars, formVars,
                   pending, spent, rendered>>

\* prevTodos.map(t => t.id === todo.id ? { ...t, content: e.target.value } : t)
WithContentEvery(list, id, str) ==
    [i \in 1..Len(list) |-> MergeFields(list[i], [content |-> str])]

WithContent(list, id, str) ==
    [i \in 1..Len(list) |->
        IF list[i].id = id THEN MergeFields(list[i], [content |-> str]) ELSE list[i]]

\* onChange of the focused content input.
Keystroke(s, str) ==
    /\ MayType
    /\ mounted[s]
    /\ editing[s] # NoEdit
    /\ HasId(todos[s], editing[s].id)
    /\ str # FieldValue(TodoWithId(todos[s], editing[s].id))
    /\ todos' = [todos EXCEPT ![s] = WithContent(@, editing[s].id, str)]
    /\ editing' = [editing EXCEPT ![s] = [id |-> @.id, typed |-> str]]
    /\ UNCHANGED <<remoteVars, mounted, authVars, syncStatus, subs, fresh, lastSnap,
                   formVars, pending, rendered>>
    /\ spent' = Typed

\* The validation that opens updateContent.
UpdatePassesUntrimmed(newContent) == newContent # <<>>

UpdatePasses(newContent) == Trim(newContent) # <<>>

\* The fields updateContent merges into the document.
ContentData(newContent) == [content |-> Trim(newContent)]

\* onBlur of the focused content input: updateContent(todo.id, e.target.value)
\* up to its await.
Blur(s) ==
    /\ mounted[s]
    /\ editing[s] # NoEdit
    /\ HasId(todos[s], editing[s].id)
    /\ editing' = [editing EXCEPT ![s] = NoEdit]
    /\ LET newContent == FieldValue(TodoWithId(todos[s], editing[s].id))
       IN IF UpdatePasses(newContent)
          THEN /\ Len(pending[s]) < MaxPending
               /\ MayWrite
               /\ pending' = [pending EXCEPT ![s] =
                     Append(@, [kind |-> "content", op |-> "merge", id |-> editing[s].id,
                                data |-> ContentData(newContent)])]
               /\ spent' = Wrote
          ELSE UNCHANGED <<pending, spent>>
    /\ UNCHANGED <<remoteVars, mounted, authVars, syncStatus, viewVars, formVars,
                   rendered>>

(***************************************************************************)
(* The derived list: todosAsc.                                             *)
(***************************************************************************)

\* (a.createdAt as Timestamp)?.seconds || 0
TimeOf(todo) ==
    IF "createdAt" \in DOMAIN todo /\ "seconds" \in DOMAIN todo.createdAt
    THEN todo.createdAt.seconds
    ELSE 0

\* The comparator handed to sort.
CompareDescending(a, b) == TimeOf(b) - TimeOf(a)

CompareUnresolvedLast(a, b) ==
    (IF TimeOf(a) = 0 THEN MaxSeconds + 1 ELSE TimeOf(a))
    - (IF TimeOf(b) = 0 THEN MaxSeconds + 1 ELSE TimeOf(b))

Compare(a, b) == TimeOf(a) - TimeOf(b)

\* Array.prototype.sort is stable: an element goes after those that do not
\* compare greater than it.
RECURSIVE InsertSortedUnstable(_, _)
InsertSortedUnstable(sorted, x) ==
    IF sorted = <<>> THEN <<x>>
    ELSE IF Compare(sorted[Len(sorted)], x) >= 0
         THEN Append(InsertSortedUnstable(SubSeq(sorted, 1, Len(sorted) - 1), x),
                     sorted[Len(sorted)])
         ELSE Append(sorted, x)

RECURSIVE InsertSorted(_, _)
InsertSorted(sorted, x) ==
    IF sorted = <<>> THEN <<x>>
    ELSE IF Compare(sorted[Len(sorted)], x) > 0
         THEN Append(InsertSorted(SubSeq(sorted, 1, Len(sorted) - 1), x),
                     sorted[Len(sorted)])
         ELSE Append(sorted, x)

RECURSIVE SortFrom(_, _)
SortFrom(sorted, rest) ==
    IF rest = <<>> THEN sorted ELSE SortFrom(InsertSorted(sorted, Head(rest)), Tail(rest))

\* [...todos].sort(comparator)
todosAsc(list) == SortFrom(<<>>, list)

(***************************************************************************)
(* The comparator on its own: any list a snapshot can deliver, rendered.   *)
(***************************************************************************)
NoMarker == [kind |-> "absent"]

Markers ==
    {NoMarker, NullTs, serverTimestamp}
    \cup {Timestamp(sec, nano) : sec \in 1..MaxSeconds, nano \in 0..MaxNanos}

\* A todo with the given id and creation marker.
SortItem(id, marker) ==
    MergeFields([id |-> id, content |-> <<"a">>, category |-> "personal",
                 done |-> FALSE, createdBy |-> NoUser],
                IF marker = NoMarker THEN <<>> ELSE [createdAt |-> marker])

SortInit ==
    /\ server = [i \in Ids |-> NoDoc]
    /\ usedIds = {}
    /\ removed = {}
    /\ clock = Timestamp(1, 1)
    /\ signIns = 0
    /\ mounted = [s \in Sessions |-> TRUE]
    /\ authUser = [s \in Sessions |-> NoUser]
    /\ authEvt = [s \in Sessions |-> TRUE]
    /\ signingIn = [s \in Sessions |-> FALSE]
    /\ userId = [s \in Sessions |-> NoUser]
    /\ syncStatus = [s \in Sessions |-> StInitializing]
    /\ subs = [s \in Sessions |-> {}]
    /\ fresh = [s \in Sessions |-> FALSE]
    /\ lastSnap = [s \in Sessions |-> NoSnap]
    /\ \E n \in 0..MaxItems : \E m \in [1..n -> Markers] :
          todos = [s \in Sessions |-> [i \in 1..n |-> SortItem(i, m[i])]]
    /\ inputContent = [s \in Sessions |-> <<>>]
    /\ inputCategory = [s \in Sessions |-> "personal"]
    /\ pending = [s \in Sessions |-> <<>>]
    /\ editing = [s \in Sessions |-> NoEdit]
    /\ spent = [writes |-> 0, typed |-> 0, outside |-> 0]
    /\ rendered = [s \in Sessions |-> <<>>]

\* The component renders: the list section maps over todosAsc.
Render(s) ==
    /\ rendered[s] # todosAsc(todos[s])
    /\ rendered' = [rendered EXCEPT ![s] = todosAsc(todos[s])]
    /\ UNCHANGED <<remoteVars, mounted, authVars, syncStatus, viewVars, formVars,
                   pending, editing, spent>>

SortNext == \E s \in Sessions : Render(s)

SortSpec == SortInit /\ [][SortNext]_vars

(***************************************************************************)
(* The awaited writes settle.                                              *)
(***************************************************************************)

\* What follows the await in a try block: addTodo clears the input.
AfterWriteKeepsInput(kind, content) == content

AfterWrite(kind, content) == IF kind = "add" THEN <<>> ELSE content

\* The server's time after a commit: later in the same second, or in the next.
Tick == {Timestamp(clock.seconds, clock.nanoseconds + 1), Timestamp(clock.seconds + 1, 0)}

\* The server commits the client's oldest write and its promise resolves.
WriteAck(s) ==
    /\ pending[s] # <<>>
    /\ LET w == Head(pending[s])
       IN /\ server' = ApplyWrite(server, w, clock)
          /\ removed' = RemovedAfter(w)
          /\ IF w.kind = "add"
             THEN clock' \in Tick
             ELSE UNCHANGED clock
          /\ inputContent' = [inputContent EXCEPT ![s] =
                IF mounted[s] THEN AfterWrite(w.kind, @) ELSE @]
    /\ pending' = [pending EXCEPT ![s] = Tail(@)]
    /\ UNCHANGED <<usedIds, signIns, mounted, authVars, syncStatus, viewVars,
                   inputCategory, editing, spent, rendered>>

\* What a catch block leaves in the write queue: the write is not issued again.
AfterFailureRetry(s) == pending[s]

AfterFailure(s) == Tail(pending[s])

\* The server rejects the client's oldest write and its promise rejects.
WriteReject(s) ==
    /\ MayOutside
    /\ pending[s] # <<>>
    /\ pending' = [pending EXCEPT ![s] = AfterFailure(s)]
    /\ syncStatus' = [syncStatus EXCEPT ![s] =
          IF mounted[s] THEN FailureStatus(Head(pending[s]).kind) ELSE @]
    /\ UNCHANGED <<remoteVars, mounted, authVars, viewVars, formVars, editing, rendered>>
    /\ spent' = Outside

(***************************************************************************)
(* The peer: another instance of the page, signed in as PeerUser, whose    *)
(* view is up to date when its user acts and whose writes are committed at *)
(* once.                                                                   *)
(***************************************************************************)
PeerUser == MaxSignIns + 1

PeerCommit(w) ==
    /\ MayOutside
    /\ spent' = Outside
    /\ server' = ApplyWrite(server, w, clock)
    /\ removed' = RemovedAfter(w)
    /\ UNCHANGED <<signIns, mounted, authVars, syncStatus, viewVars, formVars, pending,
                   editing, rendered>>

\* addTodo of the peer.
PeerAdd(str, c) ==
    /\ Trim(str) # <<>>
    /\ \E id \in Ids \ usedIds :
          /\ usedIds' = usedIds \cup {id}
          /\ PeerCommit([kind |-> "add", op |-> "set", id |-> id,
                         data |-> NewTodoData(str, c, PeerUser)])
    /\ clock' \in Tick

\* removeTodo of the peer.
PeerRemove(id) ==
    /\ server[id] # NoDoc
    /\ PeerCommit([kind |-> "remove", op |-> "delete", id |-> id, data |-> <<>>])
    /\ UNCHANGED <<clock, usedIds>>

\* toggleDone of the peer.
PeerToggle(id) ==
    /\ server[id] # NoDoc
    /\ PeerCommit([kind |-> "toggle", op |-> "merge", id |-> id,
                   data |-> ToggleData(server[id])])
    /\ UNCHANGED <<clock, usedIds>>

\* updateContent of the peer.
PeerContent(id, str) ==
    /\ server[id] # NoDoc
    /\ UpdatePasses(str)
    /\ PeerCommit([kind |-> "content", op |-> "merge", id |-> id,
                   data |-> ContentData(str)])
    /\ UNCHANGED <<clock, usedIds>>

Peer ==
    \/ \E str \in Strings, c \in Categories : PeerAdd(str, c)
    \/ \E id \in Ids : PeerRemove(id)
    \/ \E id \in Ids : PeerToggle(id)
    \/ \E id \in Ids, str \in Strings : PeerContent(id, str)

Local(s) ==
    \/ OnAuthStateChanged(s)
    \/ SignInOk(s)
    \/ SignInFail(s)
    \/ AuthLost(s)
    \/ Unmount(s)
    \/ OnSnapshot(s)
    \/ OnSnapshotError(s)
    \/ \E str \in Strings : TypeContent(s, str)
    \/ \E c \in Categories : PickCategory(s, c)
    \/ AddTodo(s)
    \/ \E i \in 1..MaxDocs : RemoveTodo(s, i)
    \/ \E i \in 1..MaxDocs : ToggleDone(s, i)
    \/ \E i \in 1..MaxDocs : Focus(s, i)
    \/ \E str \in Strings : Keystroke(s, str)
    \/ Blur(s)
    \/ WriteAck(s)
    \/ WriteReject(s)

Next == Peer \/ \E s \in Sessions : Local(s)

Spec == Init /\ [][Next]_vars

(***************************************************************************)
(* Vocabulary of the properties.                                           *)
(***************************************************************************)

\* A snapshot was delivered to the session in this step.
Delivered(s) == lastSnap'[s] # lastSnap[s] \/ (fresh[s] /\ ~fresh'[s])

\* The list holds exactly the documents: the same ids in the same order, every
\* field of a document with its value, and no field besides.
SameAsDocs(list, docs) ==
    /\ Len(list) = Len(docs)
    /\ \A i \in 1..Len(docs) :
          /\ list[i].id = docs[i].id
          /\ DOMAIN list[i] = {"id"} \cup DOMAIN docs[i].data
          /\ \A f \in DOMAIN docs[i].data : list[i][f] = docs[i].data[f]

Blank(str) == \A i \in 1..Len(str) : str[i] = " "

TrimmedNonEmpty(str) == str # <<>> /\ str[1] # " " /\ str[Len(str)] # " "

\* out is str without the white space at its ends.
IsTrimOf(out, str) ==
    \E i \in 1..(Len(str) + 1), j \in 0..Len(str) :
        /\ out = SubSeq(str, i, j)
        /\ \A k \in 1..Len(str) : (k < i \/ k > j) => str[k] = " "
        /\ out = <<>> \/ (out[1] # " " /\ out[Len(out)] # " ")

\* The step issues the write w for the session: it joins the awaited writes.
Issues(s, w) == pending'[s] = Append(pending[s], w)

IssuesSome(s) == Len(pending'[s]) > Len(pending[s])

Issued(s) == pending'[s][Len(pending'[s])]

Ids_(list) == {list[i].id : i \in 1..Len(list)}

(***************************************************************************)
(* C1.  A snapshot replaces the list: in the state right after a snapshot  *)
(* is delivered, todos holds exactly the documents of that snapshot, with  *)
(* nothing left of earlier snapshots or of local edits.                    *)
(***************************************************************************)
SnapshotReplacesTodos ==
    [][\A s \in Sessions : Delivered(s) => SameAsDocs(todos'[s], lastSnap'[s])]_vars

\* A snapshot has overwritten a text typed into a todo's field.
SnapshotOverwroteEdit ==
    \E s \in Sessions :
        /\ "typed" \in DOMAIN editing[s]
        /\ syncStatus[s] = StSynced
        /\ SameAsDocs(todos[s], lastSnap[s])
        /\ \E i \in 1..Len(todos[s]) :
              todos[s][i].id = editing[s].id /\ todos[s][i].content # editing[s].typed

(***************************************************************************)
(* C2.  Content is never persisted empty: addTodo issues no create when    *)
(* the input is blank, and every create or content update the handlers     *)
(* issue, and every document of the collection, carries a content that is  *)
(* trimmed and not empty.                                                  *)
(***************************************************************************)
ContentNeverEmpty ==
    /\ [](\A id \in Ids :
            (server[id] # NoDoc /\ "content" \in DOMAIN server[id])
                => TrimmedNonEmpty(server[id].content))
    /\ [][\A s \in Sessions :
            (IssuesSome(s) /\ Issued(s).kind \in {"add", "content"})
                => /\ TrimmedNonEmpty(Issued(s).data.content)
                   /\ Issued(s).kind = "add" => ~Blank(inputContent[s])]_vars

\* addTodo has issued a create whose content is the input without its white space.
AddTrimmedInput ==
    \E s \in Sessions :
        /\ pending[s] # <<>>
        /\ Head(pending[s]).kind = "add"
        /\ Head(pending[s]).data.content # inputContent[s]

(***************************************************************************)
(* C3.  Every document of the collection has a category that is one of    *)
(* business and personal.                                                  *)
(***************************************************************************)
CategoryAlwaysValid ==
    \A id \in Ids :
        server[id] # NoDoc
            => "category" \in DOMAIN server[id] /\ server[id].category \in Categories

(***************************************************************************)
(* C4.  A write that fails is abandoned: the step in which its promise     *)
(* rejects issues no write, sets syncStatus to the handler's failure       *)
(* message and leaves todos, the collection and the content input as they  *)
(* were.  A listener that fails sets syncStatus and changes nothing else   *)
(* of these.                                                               *)
(***************************************************************************)
FailedWriteAbandoned ==
    [][\A s \in Sessions :
          /\ (WriteReject(s) /\ mounted[s])
              => /\ pending'[s] = Tail(pending[s])
                 /\ syncStatus'[s] =
                       (CASE Head(pending[s]).op = "delete" -> StDeleteFailed
                          [] Head(pending[s]).op = "set" -> StAddFailed
                          [] "done" \in DOMAIN Head(pending[s]).data -> StToggleFailed
                          [] OTHER -> StContentFailed)
                 /\ todos' = todos
                 /\ server' = server
                 /\ inputContent' = inputContent
          /\ OnSnapshotError(s)
              => /\ syncStatus'[s] = StSyncError
                 /\ todos' = todos
                 /\ pending' = pending
                 /\ server' = server]_vars

\* After a create failed the input still holds its text, and the page has
\* gone on to issue the next create from it.
AddFailedThenRetried ==
    \E s \in Sessions :
        /\ syncStatus[s] = StAddFailed
        /\ ~Blank(inputContent[s])
        /\ pending[s] # <<>>
        /\ Head(pending[s]).kind = "add"

(***************************************************************************)
(* C5.  At most one snapshot listener is live; a live listener is the one  *)
(* opened under the current userId, which is known; none is live once the  *)
(* component is unmounted; and while none is live no snapshot is delivered *)
(* and syncStatus takes neither listener callback's value.                 *)
(***************************************************************************)
OneLiveListener ==
    /\ [](\A s \in Sessions :
            /\ Cardinality(subs[s]) <= 1
            /\ subs[s] # {} => (userId[s] # NoUser /\ subs[s] = {userId[s]})
            /\ ~mounted[s] => subs[s] = {})
    /\ [][\A s \in Sessions :
            subs[s] = {}
                => /\ ~Delivered(s)
                   /\ todos'[s] # todos[s] => mounted[s]
                   /\ syncStatus'[s] # syncStatus[s]
                         => syncStatus'[s] \notin {StSynced, StSyncError}]_vars

\* The effect has run again for a second userId: the list still shows what the
\* first listener delivered and the second has yet to deliver.
Resubscribed ==
    \E s \in Sessions :
        /\ subs[s] = {userId[s]}
        /\ fresh[s]
        /\ todos[s] # <<>>

(***************************************************************************)
(* C6.  The blur of a todo's field whose text is blank (empty or white     *)
(* space only) issues no write and leaves todos, the collection and        *)
(* syncStatus as they were.                                                *)
(***************************************************************************)
\* The focus leaves the field of a todo that stays in the list.
Blurs(s) ==
    /\ editing[s] # NoEdit
    /\ editing'[s] = NoEdit
    /\ HasId(todos'[s], editing[s].id)

BlankEditIsNoOp ==
    [][\A s \in Sessions :
          (/\ Blurs(s)
           /\ \E i \in 1..Len(todos[s]) :
                 /\ todos[s][i].id = editing[s].id
                 /\ "content" \in DOMAIN todos[s][i] => Blank(todos[s][i].content))
              => /\ pending' = pending
                 /\ server' = server
                 /\ todos' = todos
                 /\ syncStatus' = syncStatus]_vars

\* White space was typed over a todo's text and the field blurred: the list
\* shows the white space, nothing was written and the document keeps its text.
BlankTypedThenBlurred ==
    \E s \in Sessions :
        /\ editing[s] = NoEdit
        /\ spent.writes = 0
        /\ \E i \in 1..Len(todos[s]) :
              /\ todos[s][i].content = <<" ">>
              /\ server[todos[s][i].id] # NoDoc
              /\ server[todos[s][i].id].content = <<"a">>

(***************************************************************************)
(* C7.  A step in which addTodo issues its create issues that one write:   *)
(* a set of a document id never generated before, with content the trimmed *)
(* input, category the selected one, done false, createdAt the             *)
(* serverTimestamp sentinel and createdBy the userId of that moment, null  *)
(* while no user is known.                                                 *)
(***************************************************************************)
AddIssuesOneCreate ==
    [][\A s \in Sessions :
          (IssuesSome(s) /\ Issued(s).kind = "add")
              => /\ Issues(s, Issued(s))
                 /\ Issued(s).op = "set"
                 /\ Issued(s).id \notin usedIds
                 /\ Issued(s).id \in usedIds'
                 /\ DOMAIN Issued(s).data =
                       {"content", "category", "done", "createdAt", "createdBy"}
                 /\ IsTrimOf(Issued(s).data.content, inputContent[s])
                 /\ Issued(s).data.category = inputCategory[s]
                 /\ Issued(s).data.done = FALSE
                 /\ Issued(s).data.createdAt = serverTimestamp
                 /\ Issued(s).data.createdBy = userId[s]]_vars

\* A create issued before any user is known, for the category picked.
AddBeforeSignIn ==
    \E s \in Sessions :
        /\ pending[s] # <<>>
        /\ Head(pending[s]).kind = "add"
        /\ Head(pending[s]).data.createdBy = NoUser
        /\ Head(pending[s]).data.category = "business"
        /\ authUser[s] = NoUser

(***************************************************************************)
(* C8.  The rendered list is a permutation of todos, and its todos with a  *)
(* resolved creation time are in non-decreasing order of that time.        *)
(***************************************************************************)
Resolved(todo) == "createdAt" \in DOMAIN todo /\ todo.createdAt.kind = "timestamp"

IsPermutation(out, list) ==
    /\ Len(out) = Len(list)
    /\ \A i \in 1..Len(list) : \E j \in 1..Len(out) : out[j] = list[i]
    /\ \A i, j \in 1..Len(out) : i # j => out[i].id # out[j].id

\* Not later, by seconds and nanoseconds.
NotAfter(t, u) ==
    \/ t.seconds < u.seconds
    \/ t.seconds = u.seconds /\ t.nanoseconds <= u.nanoseconds

\* The list has been rendered.
RenderedSince(s) == rendered[s] # <<>>

\* As claimed: in order of the full creation time.
SortedByFullTime ==
    \A s \in Sessions :
        RenderedSince(s)
            => /\ IsPermutation(rendered[s], todos[s])
               /\ \A i, j \in 1..Len(rendered[s]) :
                     (i < j /\ Resolved(rendered[s][i]) /\ Resolved(rendered[s][j]))
                         => NotAfter(rendered[s][i].createdAt, rendered[s][j].createdAt)

\* As the comparator orders: by the seconds of the creation time.
SortedBySeconds ==
    \A s \in Sessions :
        RenderedSince(s)
            => /\ IsPermutation(rendered[s], todos[s])
               /\ \A i, j \in 1..Len(rendered[s]) :
                     (i < j /\ Resolved(rendered[s][i]) /\ Resolved(rendered[s][j]))
                         => rendered[s][i].createdAt.seconds
                               <= rendered[s][j].createdAt.seconds

\* A rendered list whose order differs from the order of todos, with two todos
\* of one second.
SortMovedResolved ==
    \E s \in Sessions :
        /\ RenderedSince(s)
        /\ rendered[s] # todos[s]
        /\ \E i, j \in 1..Len(rendered[s]) :
              /\ i < j
              /\ Resolved(rendered[s][i]) /\ Resolved(rendered[s][j])
              /\ rendered[s][i].createdAt.seconds = rendered[s][j].createdAt.seconds
              /\ rendered[s][i].createdAt.nanoseconds # rendered[s][j].createdAt.nanoseconds

(***************************************************************************)
(* C9.  In the rendered list every todo whose creation time is unresolved  *)
(* (null or the sentinel) or absent comes before every todo whose creation *)
(* time is resolved.                                                       *)
(***************************************************************************)
UnresolvedFirst ==
    \A s \in Sessions :
        RenderedSince(s)
            => \A i, j \in 1..Len(rendered[s]) :
                  (~Resolved(rendered[s][i]) /\ Resolved(rendered[s][j])) => i < j

\* The sort has moved an unresolved todo in front of a resolved one.
SortMovedUnresolved ==
    \E s \in Sessions :
        /\ RenderedSince(s)
        /\ Resolved(todos[s][1])
        /\ \E j \in 2..Len(todos[s]) : ~Resolved(todos[s][j])
        /\ ~Resolved(rendered[s][1])

(***************************************************************************)
(* C10.  removeTodo and toggleDone change nothing in the list, neither     *)
(* when called nor when their write settles: a step that takes a todo out  *)
(* of the list or changes a todo's done delivers a snapshot, which omits   *)
(* the todo or carries that value.                                         *)
(***************************************************************************)
DoneOf(list, id) ==
    LET t == TodoWithId(list, id) IN IF "done" \in DOMAIN t THEN <<t.done>> ELSE <<>>

DocWithId(docs, id) == docs[CHOOSE i \in 1..Len(docs) : docs[i].id = id]

NoOptimisticChange ==
    [][\A s \in Sessions :
          /\ \A id \in Ids_(todos[s]) \ Ids_(todos'[s]) :
                Delivered(s) /\ ~HasId(lastSnap'[s], id)
          /\ \A id \in Ids_(todos[s]) \cap Ids_(todos'[s]) :
                DoneOf(todos'[s], id) # DoneOf(todos[s], id)
                    => /\ Delivered(s)
                       /\ DoneOf(todos'[s], id) =
                             (LET d == DocWithId(lastSnap'[s], id).data
                              IN IF "done" \in DOMAIN d THEN <<d.done>> ELSE <<>>)
          /\ (\E i \in 1..Len(todos[s]) : RemoveTodo(s, i) \/ ToggleDone(s, i))
                => todos' = todos
          /\ (WriteAck(s) \/ WriteReject(s)) => todos' = todos]_vars

\* The page's delete has been committed and the todo is still in the list.
RemovedButStillListed ==
    \E s \in Sessions :
        /\ spent.outside = 0
        /\ pending[s] = <<>>
        /\ \E i \in 1..Len(todos[s]) : server[todos[s][i].id] = NoDoc

(***************************************************************************)
(* C11.  A keystroke in a todo's field changes the content of that todo in *)
(* the list and nothing else: every other todo and every other field stay  *)
(* as they were, no write is issued and the collection is untouched.  A    *)
(* content update is issued only by the step in which the field loses the  *)
(* focus, for the todo that had it, and that step issues that one write.   *)
(***************************************************************************)
KeystrokeIsLocal ==
    [][\A s \in Sessions :
          /\ (\E str \in Strings : Keystroke(s, str))
              => /\ pending' = pending
                 /\ server' = server
                 /\ Len(todos'[s]) = Len(todos[s])
                 /\ \A i \in 1..Len(todos[s]) :
                       IF todos[s][i].id = editing[s].id
                       THEN /\ DOMAIN todos'[s][i] = DOMAIN todos[s][i] \cup {"content"}
                            /\ \A f \in DOMAIN todos[s][i] \ {"content"} :
                                  todos'[s][i][f] = todos[s][i][f]
                            /\ todos'[s][i].content = editing'[s].typed
                       ELSE todos'[s][i] = todos[s][i]
          /\ (IssuesSome(s) /\ Issued(s).kind = "content")
              => /\ Issues(s, Issued(s))
                 /\ editing[s] # NoEdit
                 /\ editing'[s] = NoEdit
                 /\ Issued(s).id = editing[s].id]_vars

\* A text was typed into the field of one of two todos and the field blurred:
\* the list shows the text in that todo only, and its update is awaited.
TypedThenFlushed ==
    \E s \in Sessions :
        /\ Len(todos[s]) = 2
        /\ Len(pending[s]) = 1
        /\ pending[s][1].kind = "content"
        /\ editing[s] = NoEdit
        /\ server[pending[s][1].id] # NoDoc
        /\ server[pending[s][1].id].content # pending[s][1].data.content
        /\ \A i \in 1..2 :
              IF todos[s][i].id = pending[s][1].id
              THEN Trim(todos[s][i].content) = pending[s][1].data.content
              ELSE /\ server[todos[s][i].id] # NoDoc
                   /\ todos[s][i].content = server[todos[s][i].id].content

(***************************************************************************)
(* C12.  addTodo clears the content input without waiting for the create   *)
(* to be acknowledged: the step that issues the create leaves the input    *)
(* empty, the write still awaited.                                         *)
(***************************************************************************)
ClearsWithoutWaiting ==
    [][\A s \in Sessions :
          (IssuesSome(s) /\ Issued(s).kind = "add") => inputContent'[s] = <<>>]_vars

\* C12, as the code does it: the step that issues the create leaves the input as it
\* is; the input is cleared in the step in which the server commits the create
\* and its promise resolves; nothing else than typing changes the input; and a
\* todo joins the list only in a snapshot that holds it.
ClearsOnAck ==
    [][\A s \in Sessions :
          /\ (IssuesSome(s) /\ Issued(s).kind = "add")
              => inputContent'[s] = inputContent[s]
          /\ (WriteAck(s) /\ Head(pending[s]).kind = "add" /\ mounted[s])
              => inputContent'[s] = <<>>
          /\ inputContent'[s] # inputContent[s]
              => \/ \E str \in Strings : TypeContent(s, str)
                 \/ /\ pending[s] # <<>>
                    /\ Head(pending[s]).kind = "add"
                    /\ pending'[s] = Tail(pending[s])
                    /\ server'[Head(pending[s]).id] # NoDoc
                    /\ inputContent'[s] = <<>>
          /\ \A id \in Ids_(todos'[s]) \ Ids_(todos[s]) :
                Delivered(s) /\ HasId(lastSnap'[s], id)]_vars

\* The page's create is committed and the input cleared; the list still shows
\* the todo as the snapshot taken while the write was awaited delivered it,
\* its creation time null.
AddShownThenCleared ==
    \E s \in Sessions :
        /\ inputContent[s] = <<>>
        /\ spent.typed = 1
        /\ pending[s] = <<>>
        /\ \E i \in 1..Len(todos[s]) :
              /\ todos[s][i].createdAt = NullTs
              /\ server[todos[s][i].id] # NoDoc
              /\ server[todos[s][i].id].createdBy # PeerUser

(***************************************************************************)
(* C13.  When the update of a toggleDone is applied, the stored todo's     *)
(* done becomes the negation of what the collection held just before, and  *)
(* its other fields stay as they were, whatever happened between the click *)
(* and the commit.                                                         *)
(***************************************************************************)
\* The fields of the document other than done are as before.
OtherFieldsKept(id) ==
    /\ DOMAIN server'[id] = DOMAIN server[id] \cup {"done"}
    /\ \A f \in DOMAIN server[id] \ {"done"} : server'[id][f] = server[id][f]

ToggleFlipsStored ==
    [][\A s \in Sessions :
          (/\ WriteAck(s)
           /\ Head(pending[s]).kind = "toggle"
           /\ server[Head(pending[s]).id] # NoDoc)
              => /\ server'[Head(pending[s]).id].done = NotDone(server[Head(pending[s]).id])
                 /\ OtherFieldsKept(Head(pending[s]).id)]_vars

\* C13, as the code does it: toggleDone issues a merge of the one field done,
\* the negation of what the list showed at the click; when the update is
\* applied the stored done takes that value, the other fields of the document
\* stay as they were (a document deleted meanwhile is created with done alone),
\* and no other document changes.
ToggleWritesNegatedView ==
    [][\A s \in Sessions :
          /\ (IssuesSome(s) /\ Issued(s).kind = "toggle")
              => /\ Issues(s, Issued(s))
                 /\ Issued(s).op = "merge"
                 /\ DOMAIN Issued(s).data = {"done"}
                 /\ HasId(todos[s], Issued(s).id)
                 /\ Issued(s).data.done = NotDone(TodoWithId(todos[s], Issued(s).id))
          /\ (WriteAck(s) /\ Head(pending[s]).kind = "toggle")
              => LET w == Head(pending[s])
                 IN /\ server'[w.id] # NoDoc
                    /\ server'[w.id].done = w.data.done
                    /\ IF server[w.id] # NoDoc
                       THEN OtherFieldsKept(w.id)
                       ELSE DOMAIN server'[w.id] = {"done"}
                    /\ \A j \in Ids \ {w.id} : server'[j] = server[j]]_vars

\* The page's first toggle is committed, and before a snapshot showed it the
\* checkbox was clicked again: the update awaited carries the value the
\* collection already holds.
StaleToggleAwaited ==
    \E s \in Sessions :
        /\ spent.outside = 0
        /\ pending[s] # <<>>
        /\ Head(pending[s]).kind = "toggle"
        /\ server[Head(pending[s]).id] # NoDoc
        /\ server[Head(pending[s]).id].done = Head(pending[s]).data.done
        /\ server[Head(pending[s]).id].done = TRUE

(***************************************************************************)
(* C14.  The sort is stable: two todos that the comparator holds equal     *)
(* (creation times of the same second, or both unresolved or absent) are   *)
(* in the rendered list in the order in which todos holds them.            *)
(***************************************************************************)
PositionOf(list, id) == CHOOSE k \in 1..Len(list) : list[k].id = id

StableSort ==
    \A s \in Sessions :
        RenderedSince(s)
            => \A i, j \in 1..Len(todos[s]) :
                  (i < j /\ TimeOf(todos[s][i]) = TimeOf(todos[s][j]))
                      => PositionOf(rendered[s], todos[s][i].id)
                            < PositionOf(rendered[s], todos[s][j].id)

\* The sort has moved two unresolved todos of different markers in front of a
\* resolved one.
SortMovedEqualKeys ==
    \E s \in Sessions :
        /\ RenderedSince(s)
        /\ Len(todos[s]) = 3
        /\ Resolved(todos[s][1])
        /\ ~Resolved(todos[s][2]) /\ ~Resolved(todos[s][3])
        /\ DOMAIN todos[s][2] # DOMAIN todos[s][3]
        /\ rendered[s] = <<todos[s][2], todos[s][3], todos[s][1]>>

(***************************************************************************)
(* C15.  In every state todos has the ids of the last snapshot delivered,  *)
(* in its order (none before the first), and every field of a todo other   *)
(* than content is as in that snapshot.  A todo's content differs from the *)
(* snapshot's only since a keystroke in that todo's field that came after  *)
(* the snapshot.                                                           *)
(***************************************************************************)
ContentOf(fields) == IF "content" \in DOMAIN fields THEN <<fields.content>> ELSE <<>>

LocalMatchesSnapshot ==
    /\ [](\A s \in Sessions :
            /\ Len(todos[s]) = Len(lastSnap[s])
            /\ \A i \in 1..Len(todos[s]) :
                  /\ todos[s][i].id = lastSnap[s][i].id
                  /\ DOMAIN todos[s][i] \ {"content"} =
                        ({"id"} \cup DOMAIN lastSnap[s][i].data) \ {"content"}
                  /\ \A f \in DOMAIN lastSnap[s][i].data \ {"content"} :
                        todos[s][i][f] = lastSnap[s][i].data[f])
    /\ [][\A s \in Sessions :
            \A i \in 1..Len(todos'[s]) :
                (/\ i <= Len(lastSnap'[s])
                 /\ ContentOf(todos'[s][i]) # ContentOf(lastSnap'[s][i].data))
                    => \/ /\ \E str \in Strings : Keystroke(s, str)
                          /\ editing[s].id = todos'[s][i].id
                       \/ /\ ~Delivered(s)
                          /\ lastSnap'[s] = lastSnap[s]
                          /\ i <= Len(todos[s])
                          /\ todos'[s][i] = todos[s][i]]_vars

\* The second of two todos was edited and its field blurred since the last
\* snapshot: its content alone differs from the snapshot's.
EditedSinceSnapshot ==
    \E s \in Sessions :
        /\ Len(todos[s]) = 2
        /\ Len(lastSnap[s]) = 2
        /\ editing[s] = NoEdit
        /\ todos[s][1] = TodoOf(lastSnap[s][1])
        /\ todos[s][2] # TodoOf(lastSnap[s][2])
        /\ todos[s][2].content # lastSnap[s][2].data.content

(***************************************************************************)
(* C16.  A text typed into a todo's field survives the snapshots delivered *)
(* before the field loses the focus: when the field of a todo blurs after  *)
(* a text that is not blank was typed into it, the step issues a content   *)
(* update for that todo that carries the trimmed text of the last          *)
(* keystroke.                                                              *)
(***************************************************************************)
EditSurvivesSnapshot ==
    [][\A s \in Sessions :
          (/\ Blurs(s)
           /\ "typed" \in DOMAIN editing[s]
           /\ ~Blank(editing[s].typed))
              => /\ IssuesSome(s)
                 /\ Issued(s).kind = "content"
                 /\ Issued(s).id = editing[s].id
                 /\ Issued(s).data.content = Trim(editing[s].typed)]_vars

(***************************************************************************)
(* C17.  Removal is final: once the server has applied the deleteDoc of an *)
(* id, no document with that id exists in the collection.                  *)
(***************************************************************************)
RemovalIsFinal == \A id \in removed : server[id] = NoDoc

====
